---- MODULE Spec2Model ----
(***************************************************************************)
(* Gantry pick-and-place sequence controller                               *)
(* (exercises/gantry-pick-and-place/backend).                              *)
(*                                                                         *)
(* The model follows robot_state_machine.py (RobotStateMachine), robot.py  *)
(* (Robot, the convergence loops over the simulated actuator), api.py (the *)
(* command handlers) and positions.py (the zone-constrained coordinates).  *)
(* One asyncio event loop runs everything: a handler or one step of a      *)
(* spawned task (from one await to the next) is atomic, and steps of       *)
(* handlers and tasks interleave in any order.                             *)
(***************************************************************************)
EXTENDS Integers, Sequences, FiniteSets, TLC

VARIABLES
    state,                      \* RobotStateMachine.state
    next_cube_start_position,   \* pending source target
    next_cube_end_position,     \* pending destination target
    cube_start_position,        \* working source target (_cube_start_position)
    cube_end_position,          \* working destination target (_cube_end_position)
    move_home_requested,        \* deferred-home flag (_move_home_requested)
    tasks,                      \* the spawned tasks that have not finished, oldest first
    current_position,           \* robot_sim.current_position, a list [x, y, z]
    home_position,              \* robot_sim.home_position, a list [x, y, z]
    gripper_open,               \* robot_sim.gripper_state is GripperState.OPEN
    response,                   \* the HTTP status of the latest api.py command
    printed                     \* the latest line written to stdout

vars == <<state, next_cube_start_position, next_cube_end_position,
          cube_start_position, cube_end_position, move_home_requested,
          tasks, current_position, home_position, gripper_open,
          response, printed>>

----------------------------------------------------------------------------
(* Bounds of the model *)

\* ticks of one convergence loop that may stop short of the target
MaxTicks == 1

----------------------------------------------------------------------------
(* positions.py *)

WORK_AREA_SIZE == 2000
TABLE_DISTANCE_FROM_EDGE == 100
TABLE_SIZE == 500

TABLE_A_CORNER_X == 0 - (WORK_AREA_SIZE \div 2 - TABLE_DISTANCE_FROM_EDGE)
TABLE_A_CORNER_Y == 0 - TABLE_A_CORNER_X
TABLE_A_CENTER_X == TABLE_A_CORNER_X + TABLE_SIZE \div 2
TABLE_A_CENTER_Y == TABLE_A_CORNER_Y - TABLE_SIZE \div 2

TABLE_B_RIGHT_CORNER_X == WORK_AREA_SIZE \div 2 - TABLE_DISTANCE_FROM_EDGE
TABLE_B_BOTTOM_CORNER_Y == 0 - TABLE_B_RIGHT_CORNER_X
\* TABLE_SIZE / sqrt(2) = 353.55..., kept to the millimetre
TABLE_B_CORNER_TO_CENTER == 353
TABLE_B_CENTER_X == TABLE_B_RIGHT_CORNER_X - TABLE_B_CORNER_TO_CENTER
TABLE_B_CENTER_Y == TABLE_B_BOTTOM_CORNER_Y + TABLE_B_CORNER_TO_CENTER

Abs(n) == IF n < 0 THEN 0 - n ELSE n

\* Polygon.contains: the interior of the axis-aligned square of table A
TABLE_A_POLYGON(x, y) ==
    /\ Abs(x - TABLE_A_CENTER_X) < TABLE_SIZE \div 2
    /\ Abs(y - TABLE_A_CENTER_Y) < TABLE_SIZE \div 2

\* Polygon.contains: the interior of the square of table B, rotated by 45 degrees
TABLE_B_POLYGON(x, y) ==
    Abs(x - TABLE_B_CENTER_X) + Abs(y - TABLE_B_CENTER_Y) < TABLE_B_CORNER_TO_CENTER

Position(x, y, z) == [x |-> x, y |-> y, z |-> z]

from_list(pos) == Position(pos[1], pos[2], pos[3])

to_list(p) == <<p.x, p.y, p.z>>

\* the coordinates a caller may send as a cube start position, valid or not
StartRequests ==
    { Position(TABLE_A_CENTER_X, TABLE_A_CENTER_Y, 0),
      Position(-700, 600, 0),
      Position(TABLE_B_CENTER_X, TABLE_B_CENTER_Y, 0) }

\* the coordinates a caller may send as a cube destination position
DestinationRequests ==
    { Position(TABLE_B_CENTER_X, TABLE_B_CENTER_Y, 0),
      Position(500, -500, 0),
      Position(500, -500, 10) }

\* the coordinates a caller may send as a home position
HomeRequests ==
    { Position(0, 0, 0),
      Position(100, -100, 200),
      Position(0, 0, -1) }

CubePosition(p) == p.z >= 0 /\ p.z <= 0

CubeStartPosition(p) == CubePosition(p) /\ TABLE_A_POLYGON(p.x, p.y)

CubeDestinationPosition(p) == CubePosition(p) /\ TABLE_B_POLYGON(p.x, p.y)

RobotHomePosition(p) ==
    /\ p.x >= 0 - WORK_AREA_SIZE \div 2 /\ p.x <= WORK_AREA_SIZE \div 2
    /\ p.y >= 0 - WORK_AREA_SIZE \div 2 /\ p.y <= WORK_AREA_SIZE \div 2
    /\ p.z >= 0 /\ p.z <= WORK_AREA_SIZE \div 2

----------------------------------------------------------------------------
(* robot_state_machine.py: states, triggers, transition table *)

DEFAULT_CUBE_START_POSITION == Position(TABLE_A_CENTER_X, TABLE_A_CENTER_Y, 0)
DEFAULT_DESTINATION_POSITION == Position(TABLE_B_CENTER_X, TABLE_B_CENTER_Y, 0)
LIFTING_HEIGHT_ABOVE_TABLE == 300

States ==
    { "picking.moving", "picking.lowering", "picking.closing",
      "transporting.lifting", "transporting.moving",
      "placing.lowering", "placing.opening", "placing.lifting",
      "sequence_finished.finished",
      "home.home", "home.moving", "home.opening" }

AllStates == States \cup {"ready", "fault"}

NoState == "none"

IDLE_STATES == {"ready", "home.home", "sequence_finished.finished"}

Transition(trig, source, dest) == [trigger |-> trig, source |-> source, dest |-> dest]

\* TRANSITIONS with "start" accepted in every state
TRANSITIONS_StartAnywhere ==
    { Transition("start", "*", "picking.moving"),
      Transition("finished_moving_above_cube", "picking.moving", "picking.lowering"),
      Transition("finished_lowering_for_pickup", "picking.lowering", "picking.closing"),
      Transition("finished_closing_gripper", "picking.closing", "transporting.lifting"),
      Transition("finished_lifting_cube", "transporting.lifting", "transporting.moving"),
      Transition("finished_moving_above_destination", "transporting.moving", "placing.lowering"),
      Transition("finished_lowering_for_placement", "placing.lowering", "placing.opening"),
      Transition("finished_opening_gripper_for_placement", "placing.opening", "placing.lifting"),
      Transition("finished_lifting_after_placement", "placing.lifting", "sequence_finished.finished"),
      Transition("home", "*", "home.moving"),
      Transition("finished_moving_to_home", "home.moving", "home.opening"),
      Transition("finished_opening_gripper_at_home", "home.opening", "home.home") }

\* TRANSITIONS with the move home ending in home.home, home.opening left out
TRANSITIONS_SkipHomeOpening ==
    { Transition("start", "ready", "picking.moving"),
      Transition("start", "home.home", "picking.moving"),
      Transition("finished_moving_above_cube", "picking.moving", "picking.lowering"),
      Transition("finished_lowering_for_pickup", "picking.lowering", "picking.closing"),
      Transition("finished_closing_gripper", "picking.closing", "transporting.lifting"),
      Transition("finished_lifting_cube", "transporting.lifting", "transporting.moving"),
      Transition("finished_moving_above_destination", "transporting.moving", "placing.lowering"),
      Transition("finished_lowering_for_placement", "placing.lowering", "placing.opening"),
      Transition("finished_opening_gripper_for_placement", "placing.opening", "placing.lifting"),
      Transition("finished_lifting_after_placement", "placing.lifting", "sequence_finished.finished"),
      Transition("home", "*", "home.moving"),
      Transition("finished_moving_to_home", "home.moving", "home.home"),
      Transition("finished_opening_gripper_at_home", "home.opening", "home.home") }

TRANSITIONS ==
    { Transition("start", "ready", "picking.moving"),
      Transition("start", "home.home", "picking.moving"),
      Transition("finished_moving_above_cube", "picking.moving", "picking.lowering"),
      Transition("finished_lowering_for_pickup", "picking.lowering", "picking.closing"),
      Transition("finished_closing_gripper", "picking.closing", "transporting.lifting"),
      Transition("finished_lifting_cube", "transporting.lifting", "transporting.moving"),
      Transition("finished_moving_above_destination", "transporting.moving", "placing.lowering"),
      Transition("finished_lowering_for_placement", "placing.lowering", "placing.opening"),
      Transition("finished_opening_gripper_for_placement", "placing.opening", "placing.lifting"),
      Transition("finished_lifting_after_placement", "placing.lifting", "sequence_finished.finished"),
      Transition("home", "*", "home.moving"),
      Transition("finished_moving_to_home", "home.moving", "home.opening"),
      Transition("finished_opening_gripper_at_home", "home.opening", "home.home") }

\* the transition the base class adds for BaseTriggers.TO_FAULT
TO_FAULT == Transition("to_fault", "*", "fault")

\* the destination of trigger trig fired in state s, NoState when the
\* machine has no such transition (MachineError)
Dest(trig, s) ==
    LET matching == { t \in TRANSITIONS \cup {TO_FAULT} :
                          t.trigger = trig /\ t.source \in {s, "*"} }
    IN  IF matching = {} THEN NoState ELSE (CHOOSE t \in matching : TRUE).dest

\* NaturalTrigger with close_gripper handing over the trigger of lift_cube
NaturalTrigger_SkipLifting(s) ==
    CASE s = "picking.moving"       -> "finished_moving_above_cube"
      [] s = "picking.lowering"     -> "finished_lowering_for_pickup"
      [] s = "picking.closing"      -> "finished_lifting_cube"
      [] s = "transporting.lifting" -> "finished_lifting_cube"
      [] s = "transporting.moving"  -> "finished_moving_above_destination"
      [] s = "placing.lowering"     -> "finished_lowering_for_placement"
      [] s = "placing.opening"      -> "finished_opening_gripper_for_placement"
      [] s = "placing.lifting"      -> "finished_lifting_after_placement"
      [] s = "home.moving"          -> "finished_moving_to_home"
      [] s = "home.opening"         -> "finished_opening_gripper_at_home"

\* the trigger each on_enter_state coroutine hands to _change_state
NaturalTrigger(s) ==
    CASE s = "picking.moving"       -> "finished_moving_above_cube"
      [] s = "picking.lowering"     -> "finished_lowering_for_pickup"
      [] s = "picking.closing"      -> "finished_closing_gripper"
      [] s = "transporting.lifting" -> "finished_lifting_cube"
      [] s = "transporting.moving"  -> "finished_moving_above_destination"
      [] s = "placing.lowering"     -> "finished_lowering_for_placement"
      [] s = "placing.opening"      -> "finished_opening_gripper_for_placement"
      [] s = "placing.lifting"      -> "finished_lifting_after_placement"
      [] s = "home.moving"          -> "finished_moving_to_home"
      [] s = "home.opening"         -> "finished_opening_gripper_at_home"

\* the states with an on_enter_state hook
ON_ENTER_STATES ==
    { "picking.moving", "picking.lowering", "picking.closing",
      "transporting.lifting", "transporting.moving",
      "placing.lowering", "placing.opening", "placing.lifting",
      "home.moving", "home.opening" }

\* the hooks whose coroutine opens or closes the gripper
GRIPPER_STATES == {"picking.closing", "placing.opening", "home.opening"}

\* the hooks whose coroutine runs a convergence loop
MOVE_STATES == ON_ENTER_STATES \ GRIPPER_STATES

----------------------------------------------------------------------------
(* stdout *)

Line(kind, trig, old, new) == [kind |-> kind, trigger |-> trig, old |-> old, new |-> new]

\* nothing printed yet
NoLine == Line("none", "", "", "")

\* _print_transition: "{trigger}: {old_state} --> {new_state}"
print_transition(old_state, new_state, trig) == Line("transition", trig, old_state, new_state)

\* move_home: "Robot is in {state}, will move home after the current task completes"
print_deferred(s) == Line("deferred", "", s, "")

----------------------------------------------------------------------------
(* the state machine: trigger, spawn, _change_state *)

\* the task a state's on_enter_state hook hands to spawn(): created, its
\* coroutine not yet started; position is the target list of its loop
NewTask(s) == [coro |-> s, pc |-> "created", position |-> <<>>, ticks |-> 0]

RemoveAt(seq, i) == SubSeq(seq, 1, i - 1) \o SubSeq(seq, i + 1, Len(seq))

\* the part of the controller a trigger acts on
Machine(s, ts, line) == [state |-> s, tasks |-> ts, printed |-> line]

\* trigger whose destination hook spawns nothing
trigger_NoSpawn(m, trig) ==
    LET dest == Dest(trig, m.state)
    IN  Machine(dest, m.tasks, print_transition(m.state, dest, trig))

\* StateMachine.trigger for a trigger the current state accepts: the state
\* changes, the destination's on_enter_state hook spawns its task, and the
\* on_state_change callback prints the transition
trigger(m, trig) ==
    LET dest == Dest(trig, m.state)
    IN  Machine(dest,
                IF dest \in ON_ENTER_STATES
                    THEN Append(m.tasks, NewTask(dest))
                    ELSE m.tasks,
                print_transition(m.state, dest, trig))

\* _change_state that always fires the given trigger
change_state_IgnoreFlag(m, requested, trig) ==
    IF Dest(trig, m.state) # NoState
        THEN [m |-> trigger(m, trig), raised |-> FALSE]
        ELSE [m |-> m, raised |-> TRUE]

\* _change_state, called in a task: fires home when the flag is set, the
\* given trigger otherwise; raised when the machine rejects the trigger
change_state(m, requested, trig) ==
    LET fired == IF requested THEN "home" ELSE trig
    IN  IF Dest(fired, m.state) # NoState
            THEN [m |-> trigger(m, fired), raised |-> FALSE]
            ELSE [m |-> m, raised |-> TRUE]

\* spawn() without the except clause: the exception ends the task and
\* nothing else happens
spawn_Uncaught(r) == r.m

\* the _wrapper of spawn(): an exception of the coroutine fires TO_FAULT
spawn(r) == IF r.raised THEN trigger(r.m, "to_fault") ELSE r.m

\* robot_is_idle that knows "ready" only
robot_is_idle_ReadyOnly == state = "ready"

robot_is_idle == state \in IDLE_STATES

\* TargetOf with lift() reading the pending destination
TargetOf_LiftFromPending(s) ==
    CASE s = "picking.moving" ->
            <<next_cube_start_position.x, next_cube_start_position.y, LIFTING_HEIGHT_ABOVE_TABLE>>
      [] s = "picking.lowering" -> to_list(cube_start_position)
      [] s = "transporting.lifting" ->
            <<cube_start_position.x, cube_start_position.y, LIFTING_HEIGHT_ABOVE_TABLE>>
      [] s = "transporting.moving" ->
            <<next_cube_end_position.x, next_cube_end_position.y, LIFTING_HEIGHT_ABOVE_TABLE>>
      [] s = "placing.lowering" -> to_list(cube_end_position)
      [] s = "placing.lifting" ->
            <<next_cube_end_position.x, next_cube_end_position.y, LIFTING_HEIGHT_ABOVE_TABLE>>

\* TargetOf with move_above_cube reading the working source target
TargetOf_MoveAboveWorking(s) ==
    CASE s = "picking.moving" ->
            <<cube_start_position.x, cube_start_position.y, LIFTING_HEIGHT_ABOVE_TABLE>>
      [] s = "picking.lowering" -> to_list(cube_start_position)
      [] s = "transporting.lifting" ->
            <<cube_start_position.x, cube_start_position.y, LIFTING_HEIGHT_ABOVE_TABLE>>
      [] s = "transporting.moving" ->
            <<next_cube_end_position.x, next_cube_end_position.y, LIFTING_HEIGHT_ABOVE_TABLE>>
      [] s = "placing.lowering" -> to_list(cube_end_position)
      [] s = "placing.lifting" ->
            <<cube_end_position.x, cube_end_position.y, LIFTING_HEIGHT_ABOVE_TABLE>>

\* the target list each move coroutine builds when it starts
TargetOf(s) ==
    CASE s = "picking.moving" ->
            <<next_cube_start_position.x, next_cube_start_position.y, LIFTING_HEIGHT_ABOVE_TABLE>>
      [] s = "picking.lowering" -> to_list(cube_start_position)
      [] s = "transporting.lifting" ->
            <<cube_start_position.x, cube_start_position.y, LIFTING_HEIGHT_ABOVE_TABLE>>
      [] s = "transporting.moving" ->
            <<next_cube_end_position.x, next_cube_end_position.y, LIFTING_HEIGHT_ABOVE_TABLE>>
      [] s = "placing.lowering" -> to_list(cube_end_position)
      [] s = "placing.lifting" ->
            <<cube_end_position.x, cube_end_position.y, LIFTING_HEIGHT_ABOVE_TABLE>>

\* LoopTarget that takes the height the actuator already has, as a loop
\* comparing x and y only would
LoopTarget_IgnoreHeight(t) ==
    LET target == IF t.coro = "home.moving" THEN home_position
                  ELSE IF t.pc = "created" THEN TargetOf(t.coro)
                  ELSE t.position
    IN  <<target[1], target[2], current_position[3]>>

\* the target the loop of task t compares the position with: the home
\* position as it is now for move_to_home_position, else the list the
\* coroutine was called with
LoopTarget(t) ==
    IF t.coro = "home.moving" THEN home_position
    ELSE IF t.pc = "created" THEN TargetOf(t.coro)
    ELSE t.position

\* the flag as the task's step sees it: move_home() clears it first
FlagSeenBy(t) ==
    IF t.coro = "home.moving" /\ t.pc = "created" THEN FALSE ELSE move_home_requested

----------------------------------------------------------------------------
(* the simulated actuator, one tick of the Motion Primitive *)

MoveResults == {"error", "nudge", "arrive"}

Mid(a, b) == (a + b) \div 2

\* where a tick that does not arrive leaves the actuator
Nudge(pos, target) == <<Mid(pos[1], target[1]), Mid(pos[2], target[2]), Mid(pos[3], target[3])>>

----------------------------------------------------------------------------
(* api.py *)

HTTP_200_OK == 200
HTTP_409_CONFLICT == 409
HTTP_422_UNPROCESSABLE == 422

Init ==
    /\ state = "ready"
    /\ next_cube_start_position = DEFAULT_CUBE_START_POSITION
    /\ next_cube_end_position = DEFAULT_DESTINATION_POSITION
    /\ cube_start_position = DEFAULT_CUBE_START_POSITION
    /\ cube_end_position = DEFAULT_DESTINATION_POSITION
    /\ move_home_requested = FALSE
    /\ tasks = <<>>
    /\ home_position = <<0, 0, 0>>
    /\ current_position \in {<<0, 0, 0>>, <<0, 0, LIFTING_HEIGHT_ABOVE_TABLE>>}
    /\ gripper_open \in BOOLEAN
    /\ response = HTTP_200_OK
    /\ printed = NoLine

\* start_sequence: state_machine.start() fires "start"; MachineError
\* becomes HTTP 409
start_sequence ==
    IF Dest("start", state) # NoState
    THEN LET m == trigger(Machine(state, tasks, printed), "start")
         IN  /\ state' = m.state
             /\ tasks' = m.tasks
             /\ printed' = m.printed
             /\ response' = HTTP_200_OK
             /\ UNCHANGED <<next_cube_start_position, next_cube_end_position,
                            cube_start_position, cube_end_position,
                            move_home_requested, current_position,
                            home_position, gripper_open>>
    ELSE /\ response' = HTTP_409_CONFLICT
         /\ UNCHANGED <<state, tasks, printed,
                        next_cube_start_position, next_cube_end_position,
                        cube_start_position, cube_end_position,
                        move_home_requested, current_position,
                        home_position, gripper_open>>

\* move_home that fires "home" whatever the state
move_home_Unguarded ==
    LET m == trigger(Machine(state, tasks, printed), "home")
    IN  /\ state' = m.state
        /\ tasks' = m.tasks
        /\ printed' = m.printed
        /\ response' = HTTP_200_OK
        /\ UNCHANGED <<move_home_requested,
                       next_cube_start_position, next_cube_end_position,
                       cube_start_position, cube_end_position,
                       current_position, home_position, gripper_open>>

\* move_home that announces the deferral but does not record it
move_home_Forgetful ==
    /\ IF robot_is_idle
       THEN LET m == trigger(Machine(state, tasks, printed), "home")
            IN  /\ state' = m.state
                /\ tasks' = m.tasks
                /\ printed' = m.printed
       ELSE /\ printed' = print_deferred(state)
            /\ UNCHANGED <<state, tasks>>
    /\ response' = HTTP_200_OK
    /\ UNCHANGED <<move_home_requested,
                   next_cube_start_position, next_cube_end_position,
                   cube_start_position, cube_end_position,
                   current_position, home_position, gripper_open>>

\* move_home (api.py) calling RobotStateMachine.move_home
move_home ==
    /\ IF robot_is_idle
       THEN LET m == trigger(Machine(state, tasks, printed), "home")
            IN  /\ state' = m.state
                /\ tasks' = m.tasks
                /\ printed' = m.printed
                /\ UNCHANGED move_home_requested
       ELSE /\ printed' = print_deferred(state)
            /\ move_home_requested' = TRUE
            /\ UNCHANGED <<state, tasks>>
    /\ response' = HTTP_200_OK
    /\ UNCHANGED <<next_cube_start_position, next_cube_end_position,
                   cube_start_position, cube_end_position,
                   current_position, home_position, gripper_open>>

\* set_cube_start_position: the request is validated as a CubeStartPosition
\* before the handler runs
set_cube_start_position(position) ==
    /\ IF CubeStartPosition(position)
       THEN /\ next_cube_start_position' = position
            /\ response' = HTTP_200_OK
       ELSE /\ response' = HTTP_422_UNPROCESSABLE
            /\ UNCHANGED next_cube_start_position
    /\ UNCHANGED <<state, tasks, printed, next_cube_end_position,
                   cube_start_position, cube_end_position,
                   move_home_requested, current_position,
                   home_position, gripper_open>>

\* set_cube_destination_position
set_cube_destination_position(position) ==
    /\ IF CubeDestinationPosition(position)
       THEN /\ next_cube_end_position' = position
            /\ response' = HTTP_200_OK
       ELSE /\ response' = HTTP_422_UNPROCESSABLE
            /\ UNCHANGED next_cube_end_position
    /\ UNCHANGED <<state, tasks, printed, next_cube_start_position,
                   cube_start_position, cube_end_position,
                   move_home_requested, current_position,
                   home_position, gripper_open>>

\* set_robot_home_position calling Robot.set_home_position
set_robot_home_position(request) ==
    /\ IF RobotHomePosition(request)
       THEN /\ home_position' = to_list(request)
            /\ response' = HTTP_200_OK
       ELSE /\ response' = HTTP_422_UNPROCESSABLE
            /\ UNCHANGED home_position
    /\ UNCHANGED <<state, tasks, printed, next_cube_start_position,
                   next_cube_end_position, cube_start_position,
                   cube_end_position, move_home_requested,
                   current_position, gripper_open>>

----------------------------------------------------------------------------
(* the spawned coroutines, one action per step between two awaits *)

\* a gripper coroutine starts: Robot.open_gripper / close_gripper sleeps
\* GRIPPER_ACTION_DELAY_SEC before it commits
TaskAwaitGripper(i) ==
    /\ tasks[i].coro \in GRIPPER_STATES
    /\ tasks[i].pc = "created"
    /\ tasks' = [tasks EXCEPT ![i].pc = "sleeping"]
    /\ UNCHANGED <<state, printed, next_cube_start_position,
                   next_cube_end_position, cube_start_position,
                   cube_end_position, move_home_requested,
                   current_position, home_position, gripper_open, response>>

\* TaskTick that puts the working targets back to the defaults when the
\* Motion Primitive reports an error
TaskTick_ResetOnError(i, result) ==
    LET t == tasks[i]
        target == LoopTarget(t)
    IN  /\ t.coro \in MOVE_STATES
        /\ current_position # target
        /\ result = "nudge" => t.ticks < MaxTicks
        /\ move_home_requested' = FlagSeenBy(t)
        /\ IF result = "error"
           THEN LET m == spawn([m |-> Machine(state, RemoveAt(tasks, i), printed),
                                raised |-> TRUE])
                IN  /\ state' = m.state
                    /\ tasks' = m.tasks
                    /\ printed' = m.printed
                    /\ cube_start_position' = DEFAULT_CUBE_START_POSITION
                    /\ cube_end_position' = DEFAULT_DESTINATION_POSITION
                    /\ UNCHANGED current_position
           ELSE /\ current_position' =
                       IF result = "arrive" THEN target
                       ELSE Nudge(current_position, target)
                /\ tasks' = [tasks EXCEPT ![i] =
                       [coro |-> t.coro, pc |-> "sleeping",
                        position |-> IF t.coro = "home.moving" THEN <<>> ELSE target,
                        ticks |-> IF result = "nudge" THEN t.ticks + 1 ELSE t.ticks]]
                /\ UNCHANGED <<state, printed, cube_start_position, cube_end_position>>
        /\ UNCHANGED <<next_cube_start_position, next_cube_end_position,
                       home_position, gripper_open, response>>

\* one iteration of the loop of Robot.move_to_position or
\* Robot.move_to_home_position with the actuator off target: the Motion
\* Primitive is called once and reports result; an error raises
\* RuntimeError, else the task sleeps MOVEMENT_PERIOD_SEC
TaskTick(i, result) ==
    LET t == tasks[i]
        target == LoopTarget(t)
    IN  /\ t.coro \in MOVE_STATES
        /\ current_position # target
        /\ result = "nudge" => t.ticks < MaxTicks
        /\ move_home_requested' = FlagSeenBy(t)
        /\ IF result = "error"
           THEN LET m == spawn([m |-> Machine(state, RemoveAt(tasks, i), printed),
                                raised |-> TRUE])
                IN  /\ state' = m.state
                    /\ tasks' = m.tasks
                    /\ printed' = m.printed
                    /\ UNCHANGED current_position
           ELSE /\ current_position' =
                       IF result = "arrive" THEN target
                       ELSE Nudge(current_position, target)
                /\ tasks' = [tasks EXCEPT ![i] =
                       [coro |-> t.coro, pc |-> "sleeping",
                        position |-> IF t.coro = "home.moving" THEN <<>> ELSE target,
                        ticks |-> IF result = "nudge" THEN t.ticks + 1 ELSE t.ticks]]
                /\ UNCHANGED <<state, printed>>
        /\ UNCHANGED <<next_cube_start_position, next_cube_end_position,
                       cube_start_position, cube_end_position,
                       home_position, gripper_open, response>>

\* the last step of a coroutine: the loop finds the actuator on target, or
\* the gripper delay is over and the gripper state is committed; then the
\* statements up to and including _change_state run, under the _wrapper of
\* spawn()
TaskFinish(i) ==
    LET t == tasks[i]
        r == change_state(Machine(state, RemoveAt(tasks, i), printed),
                          FlagSeenBy(t), NaturalTrigger(t.coro))
        m == spawn(r)
    IN  /\ \/ t.coro \in MOVE_STATES /\ current_position = LoopTarget(t)
           \/ t.coro \in GRIPPER_STATES /\ t.pc = "sleeping"
        /\ move_home_requested' = FlagSeenBy(t)
        /\ cube_start_position' =
               IF t.coro = "picking.moving" THEN next_cube_start_position
               ELSE cube_start_position
        /\ cube_end_position' =
               IF t.coro = "transporting.moving" THEN next_cube_end_position
               ELSE cube_end_position
        /\ gripper_open' =
               IF t.coro \in {"placing.opening", "home.opening"} THEN TRUE
               ELSE IF t.coro = "picking.closing" THEN FALSE
               ELSE gripper_open
        /\ state' = m.state
        /\ tasks' = m.tasks
        /\ printed' = m.printed
        /\ UNCHANGED <<next_cube_start_position, next_cube_end_position,
                       current_position, home_position, response>>

Next ==
    \/ start_sequence
    \/ move_home
    \/ \E position \in StartRequests : set_cube_start_position(position)
    \/ \E position \in DestinationRequests : set_cube_destination_position(position)
    \/ \E request \in HomeRequests : set_robot_home_position(request)
    \/ \E i \in DOMAIN tasks : TaskAwaitGripper(i)
    \/ \E i \in DOMAIN tasks : \E result \in MoveResults : TaskTick(i, result)
    \/ \E i \in DOMAIN tasks : TaskFinish(i)

Spec == Init /\ [][Next]_vars

TypeOK ==
    /\ state \in AllStates
    /\ move_home_requested \in BOOLEAN
    /\ gripper_open \in BOOLEAN
    /\ CubeStartPosition(next_cube_start_position)
    /\ CubeStartPosition(cube_start_position)
    /\ CubeDestinationPosition(next_cube_end_position)
    /\ CubeDestinationPosition(cube_end_position)
    /\ RobotHomePosition(from_list(home_position))
    /\ \A i \in DOMAIN tasks : tasks[i].coro \in ON_ENTER_STATES

\* a cycle with a Motion Primitive that never reports an error, and no
\* home request
NextNominal ==
    \/ start_sequence
    \/ \E position \in StartRequests : set_cube_start_position(position)
    \/ \E position \in DestinationRequests : set_cube_destination_position(position)
    \/ \E request \in HomeRequests : set_robot_home_position(request)
    \/ \E i \in DOMAIN tasks : TaskAwaitGripper(i)
    \/ \E i \in DOMAIN tasks : \E result \in MoveResults \ {"error"} : TaskTick(i, result)
    \/ \E i \in DOMAIN tasks : TaskFinish(i)

SpecNominal == Init /\ [][NextNominal]_vars

\* one step of a spawned task when the Motion Primitive reports no error
TaskStepNominal ==
    \E i \in DOMAIN tasks :
        \/ TaskAwaitGripper(i)
        \/ \E result \in MoveResults \ {"error"} : TaskTick(i, result)
        \/ TaskFinish(i)

\* the event loop runs every task that is ready
SpecNominalFair == SpecNominal /\ WF_vars(TaskStepNominal)

\* the controller at home.home after a cycle and a return home: the pending
\* targets hold what was last written, the working targets hold the
\* snapshots of the cycle before
InitNextCycle ==
    /\ state = "home.home"
    /\ next_cube_start_position \in {p \in StartRequests : CubeStartPosition(p)}
    /\ next_cube_end_position \in {p \in DestinationRequests : CubeDestinationPosition(p)}
    /\ cube_start_position \in {p \in StartRequests : CubeStartPosition(p)}
    /\ cube_end_position \in {p \in DestinationRequests : CubeDestinationPosition(p)}
    /\ move_home_requested = FALSE
    /\ tasks = <<>>
    /\ home_position \in {to_list(p) : p \in {q \in HomeRequests : RobotHomePosition(q)}}
    /\ current_position = home_position
    /\ gripper_open = TRUE
    /\ response = HTTP_200_OK
    /\ printed = print_transition("home.opening", "home.home",
                                  "finished_opening_gripper_at_home")

\* the next cycle, with no further write of the pending targets, no home
\* request and no primitive error
NextNextCycle ==
    \/ start_sequence
    \/ \E i \in DOMAIN tasks : TaskAwaitGripper(i)
    \/ \E i \in DOMAIN tasks : \E result \in MoveResults \ {"error"} : TaskTick(i, result)
    \/ \E i \in DOMAIN tasks : TaskFinish(i)

SpecNextCycle == InitNextCycle /\ [][NextNextCycle]_vars

\* every command and every task step, with a Motion Primitive that never
\* reports an error
NextFaultFree ==
    \/ start_sequence
    \/ move_home
    \/ \E position \in StartRequests : set_cube_start_position(position)
    \/ \E position \in DestinationRequests : set_cube_destination_position(position)
    \/ \E request \in HomeRequests : set_robot_home_position(request)
    \/ \E i \in DOMAIN tasks : TaskAwaitGripper(i)
    \/ \E i \in DOMAIN tasks : \E result \in MoveResults \ {"error"} : TaskTick(i, result)
    \/ \E i \in DOMAIN tasks : TaskFinish(i)

SpecFaultFreeFair == Init /\ [][NextFaultFree]_vars /\ WF_vars(TaskStepNominal)

----------------------------------------------------------------------------
(* Properties *)

\* the busy states: neither idle nor fault
BusyStates == AllStates \ (IDLE_STATES \cup {"fault"})

\* C1: in every state outside the idle set (fault and every working state
\* included) start() fails with Conflict and leaves the state, the
\* deferred-home flag, the pending and working targets and the in-flight
\* action as they were.
C1_StartRejectedOutsideIdle ==
    [][(start_sequence /\ state \notin IDLE_STATES) =>
          /\ response' = HTTP_409_CONFLICT
          /\ UNCHANGED <<state, move_home_requested,
                         next_cube_start_position, next_cube_end_position,
                         cube_start_position, cube_end_position, tasks>>]_vars

\* start() was just rejected in the middle of a cycle
C1_Witness ==
    /\ response = HTTP_409_CONFLICT
    /\ state = "placing.opening"
    /\ Len(tasks) = 1
    /\ tasks[1].pc = "sleeping"

\* C2: from each of ready, home.home and sequence_finished.finished start()
\* is accepted without Conflict and the state right after the call is
\* picking.moving.
C2_StartAcceptedFromIdle ==
    [][(start_sequence /\ state \in IDLE_STATES) =>
          /\ response' = HTTP_200_OK
          /\ state' = "picking.moving"]_vars

\* C3: requestHome() in a busy state (home.moving and home.opening
\* included) changes neither the state nor the in-flight action, and the
\* first transition after it that is not the fault transition enters
\* home.moving.
C3_DeferredHomeDiverts ==
    [][/\ (move_home /\ state \in BusyStates) => UNCHANGED <<state, tasks>>
       /\ (/\ printed.kind = "deferred"
           /\ printed.old \in BusyStates
           /\ printed'.kind = "transition"
           /\ printed'.trigger # "to_fault") => printed'.new = "home.moving"]_vars

\* C4: requestHome() in an idle state fires home at once: the state right
\* after the call is home.moving and the call does not set the
\* deferred-home flag.
C4_HomeFromIdleIsImmediate ==
    [][(move_home /\ state \in IDLE_STATES) =>
          /\ state' = "home.moving"
          /\ UNCHANGED move_home_requested
          /\ ~move_home_requested']_vars

\* requestHome() was just served from sequence_finished.finished
C4_Witness ==
    /\ state = "home.moving"
    /\ printed = print_transition("sequence_finished.finished", "home.moving", "home")
    /\ ~move_home_requested

\* the states of a cycle from the entry into picking.moving up to the last
\* use of the working source target
SourceStageStates ==
    {"picking.moving", "picking.lowering", "picking.closing", "transporting.lifting"}

\* the states of a cycle from the entry into transporting.moving up to the
\* last use of the working destination target
DestinationStageStates ==
    {"transporting.moving", "placing.lowering", "placing.opening", "placing.lifting"}

\* C5: the working source target is the pending source target as it was
\* when picking.moving was entered: the entry copies it, and no step
\* between the entry and the end of transporting.lifting changes it.
C5_SourceSnapshotOnEntry ==
    [][/\ (state # "picking.moving" /\ state' = "picking.moving") =>
              cube_start_position' = next_cube_start_position
       /\ (state \in SourceStageStates /\ state' \in SourceStageStates) =>
              cube_start_position' = cube_start_position]_vars

\* C6: the working destination target is the pending destination target as
\* it was when transporting.moving was entered: the entry copies it, and no
\* step between the entry and the end of placing.lifting changes it.
C6_DestinationSnapshotOnEntry ==
    [][/\ (state # "transporting.moving" /\ state' = "transporting.moving") =>
              cube_end_position' = next_cube_end_position
       /\ (state \in DestinationStageStates /\ state' \in DestinationStageStates) =>
              cube_end_position' = cube_end_position]_vars

\* C7: an error raised in a spawned action (the Motion Primitive reporting
\* an error during a move) makes the state fault: neither the natural
\* trigger nor home is fired, no action is spawned, and no caller sees the
\* error.
C7_ErrorLeadsToFault ==
    [][\A i \in DOMAIN tasks :
          TaskTick(i, "error") =>
              /\ state' = "fault"
              /\ printed' = print_transition(state, "fault", "to_fault")
              /\ tasks' = RemoveAt(tasks, i)
              /\ response' = response]_vars

\* the descent onto the destination failed while a home request was pending
C7_Witness ==
    /\ state = "fault"
    /\ printed = print_transition("placing.lowering", "fault", "to_fault")
    /\ move_home_requested
    /\ tasks = <<>>

\* C8: fault is absorbing: no start(), requestHome(), setter call or task
\* step changes the state once it is fault.
C8_FaultIsAbsorbing == [][state = "fault" => state' = "fault"]_vars

\* in fault, a home request was deferred and a start was rejected
C8_Witness ==
    /\ state = "fault"
    /\ printed = print_deferred("fault")
    /\ move_home_requested
    /\ response = HTTP_409_CONFLICT

\* the states of an uninterrupted cycle, in order
NominalSequence ==
    << "ready", "picking.moving", "picking.lowering", "picking.closing",
       "transporting.lifting", "transporting.moving", "placing.lowering",
       "placing.opening", "placing.lifting", "sequence_finished.finished" >>

\* C9: from ready, with a fault-free converging Motion Primitive and no
\* requestHome, every change of state goes from one state of the sequence
\* ready, picking.moving, ..., sequence_finished.finished to the one right
\* after it, and is printed as such.
C9_NominalOrder ==
    [][(state' # state \/ printed' # printed) =>
          \E k \in 1..(Len(NominalSequence) - 1) :
              /\ state = NominalSequence[k]
              /\ state' = NominalSequence[k + 1]
              /\ printed'.kind = "transition"
              /\ printed'.old = state
              /\ printed'.new = state']_vars

\* the cycle ran to its end
C9_Witness ==
    /\ state = "sequence_finished.finished"
    /\ printed = print_transition("placing.lifting", "sequence_finished.finished",
                                  "finished_lifting_after_placement")
    /\ tasks = <<>>

\* C10 as stated: at sequence_finished.finished the current position is the
\* working destination target, x, y and z.
C10_EndsOnDestination ==
    state = "sequence_finished.finished" =>
        current_position = to_list(cube_end_position)

\* C10, amended: at sequence_finished.finished the current position has
\* the x and y of the working destination target and z equal to
\* LIFTING_HEIGHT_ABOVE_TABLE.
C10_EndsAboveDestination ==
    state = "sequence_finished.finished" =>
        current_position = <<cube_end_position.x, cube_end_position.y,
                             LIFTING_HEIGHT_ABOVE_TABLE>>

\* a cycle ended above a destination while another one is pending
C10_Witness ==
    /\ state = "sequence_finished.finished"
    /\ current_position = <<500, -500, LIFTING_HEIGHT_ABOVE_TABLE>>
    /\ next_cube_end_position = DEFAULT_DESTINATION_POSITION

\* C11: after an accepted start(), with a Motion Primitive that never
\* reports an error and converges, no requestHome and fair scheduling of
\* the spawned tasks, the machine eventually reaches
\* sequence_finished.finished.
C11_CycleCompletes ==
    (state = "picking.moving") ~> (state = "sequence_finished.finished")

\* the cycle completed with the gripper released above the destination
C11_Witness ==
    /\ state = "sequence_finished.finished"
    /\ gripper_open
    /\ current_position[3] = LIFTING_HEIGHT_ABOVE_TABLE
    /\ response = HTTP_200_OK

\* the point at LIFTING_HEIGHT_ABOVE_TABLE above p
Above(p) == <<p.x, p.y, LIFTING_HEIGHT_ABOVE_TABLE>>

\* the target the pending values prescribe for the move of state s
PendingTarget(s) ==
    CASE s = "picking.moving"       -> Above(next_cube_start_position)
      [] s = "picking.lowering"     -> to_list(next_cube_start_position)
      [] s = "transporting.lifting" -> Above(next_cube_start_position)
      [] s = "transporting.moving"  -> Above(next_cube_end_position)
      [] s = "placing.lowering"     -> to_list(next_cube_end_position)
      [] s = "placing.lifting"      -> Above(next_cube_end_position)

\* C12: a pending source or destination written during a cycle after its
\* snapshot and not overwritten afterwards is the target of the next cycle:
\* every move of that cycle goes above, onto and up from exactly that
\* value, and the actuator stands there when the move is over.
C12_NextCycleUsesPending ==
    /\ \A i \in DOMAIN tasks :
          (tasks[i].coro \in MOVE_STATES \ {"home.moving"} /\ tasks[i].pc = "sleeping") =>
              tasks[i].position = PendingTarget(tasks[i].coro)
    /\ state \in {"picking.lowering", "picking.closing", "transporting.lifting"} =>
          cube_start_position = next_cube_start_position
    /\ state \in {"placing.lowering", "placing.opening", "placing.lifting",
                  "sequence_finished.finished"} =>
          cube_end_position = next_cube_end_position
    /\ state = "picking.closing" =>
          current_position = to_list(next_cube_start_position)
    /\ state = "placing.opening" =>
          current_position = to_list(next_cube_end_position)
    /\ state = "sequence_finished.finished" =>
          current_position = Above(next_cube_end_position)

\* the next cycle descended onto a destination other than the snapshot of
\* the cycle before
C12_Witness ==
    /\ state = "placing.opening"
    /\ next_cube_end_position = Position(500, -500, 0)
    /\ current_position = <<500, -500, 0>>
    /\ cube_start_position = Position(-700, 600, 0)

\* C13: at most one action task is in flight; a working state has exactly
\* one, the one its entry spawned, and ready, home.home,
\* sequence_finished.finished and fault have none.
C13_OneTaskInFlight ==
    /\ Len(tasks) <= 1
    /\ state \in ON_ENTER_STATES => (Len(tasks) = 1 /\ tasks[1].coro = state)
    /\ state \in IDLE_STATES \cup {"fault"} => tasks = <<>>

\* home.moving was entered again from home.moving: the task that fired home
\* is gone and the one spawned by the entry is the only one
C13_Witness ==
    /\ state = "home.moving"
    /\ printed = print_transition("home.moving", "home.moving", "home")
    /\ Len(tasks) = 1
    /\ tasks[1].pc = "created"

\* C14: _change_state fires home instead of the natural trigger exactly
\* when the deferred-home flag is set as it is called, and the flag is
\* cleared as part of that firing: it is false in the state right after
\* the transition into home.moving.
C14_FlagClearedByDiversion ==
    [][\A i \in DOMAIN tasks :
          TaskFinish(i) =>
              /\ (printed'.trigger = "home") <=> FlagSeenBy(tasks[i])
              /\ (printed'.trigger = "home") =>
                     (state' = "home.moving" /\ ~move_home_requested')]_vars

\* a home request is outstanding: deferred by the latest printed line, or
\* being served
HomeRequested == printed.kind = "deferred" \/ state = "home.moving"

C16_FailureKeepsTargets ==
    [][/\ (\/ state # "fault" /\ state' = "fault"
           \/ \E i \in DOMAIN tasks : TaskTick(i, "error")) =>
              UNCHANGED <<next_cube_start_position, next_cube_end_position,
                          cube_start_position, cube_end_position>>
       /\ state' = state =>
              UNCHANGED <<cube_start_position, cube_end_position>>]_vars

\* the move above the destination failed in a later cycle, after the
\* pending destination was rewritten: the snapshot of the cycle before is
\* still the working destination
C16_Witness ==
    /\ state = "fault"
    /\ printed = print_transition("transporting.moving", "fault", "to_fault")
    /\ cube_end_position = Position(500, -500, 0)
    /\ next_cube_end_position = DEFAULT_DESTINATION_POSITION

\* the list the move of task t was called with: the home position for
\* moveToHome, else the target its state prescribes
CalledWith(t) ==
    CASE t.coro = "home.moving" -> home_position
      [] t.coro = "picking.lowering" -> to_list(cube_start_position)
      [] t.coro = "transporting.lifting" -> Above(cube_start_position)
      [] t.coro = "placing.lowering" -> to_list(cube_end_position)
      [] t.coro = "placing.lifting" -> Above(cube_end_position)
      [] t.coro = "picking.moving" ->
            IF t.pc = "sleeping" THEN t.position ELSE Above(next_cube_start_position)
      [] t.coro = "transporting.moving" ->
            IF t.pc = "sleeping" THEN t.position ELSE Above(next_cube_end_position)

\* C17: moveToPosition and moveToHome return normally only with the
\* actuator exactly on the target; a primitive error ends the call at that
\* tick, with no further tick and no move; and as long as the actuator is
\* off target and no error is reported the call stays suspended, the state
\* unchanged.
C17_MoveReturnsOnTarget ==
    [][\A i \in DOMAIN tasks :
          tasks[i].coro \in MOVE_STATES =>
              /\ TaskFinish(i) =>
                     /\ current_position = CalledWith(tasks[i])
                     /\ current_position' = current_position
              /\ TaskTick(i, "error") =>
                     /\ current_position' = current_position
                     /\ tasks' = <<>>
                     /\ state' = "fault"
              /\ (current_position # CalledWith(tasks[i]) /\ ~TaskTick(i, "error")) =>
                     /\ state' = state
                     /\ Len(tasks') >= i
                     /\ tasks'[i].coro = tasks[i].coro]_vars

\* the descent onto the cube returned after a tick that stopped short and
\* one that arrived
C17_Witness ==
    /\ state = "picking.closing"
    /\ printed = print_transition("picking.lowering", "picking.closing",
                                  "finished_lowering_for_pickup")
    /\ current_position = to_list(cube_start_position)
    /\ tasks[1].pc = "created"

\* C18: every descent is vertical: throughout picking.lowering the
\* actuator has the x and y of the working source target it descends onto,
\* and throughout placing.lowering those of the working destination.
C18_DescentIsVertical ==
    /\ state = "picking.lowering" =>
          /\ current_position[1] = cube_start_position.x
          /\ current_position[2] = cube_start_position.y
    /\ state = "placing.lowering" =>
          /\ current_position[1] = cube_end_position.x
          /\ current_position[2] = cube_end_position.y

\* C19: in ready, home.home and sequence_finished.finished the
\* deferred-home flag is false: no pending home request survives into an
\* idle state.
C19_IdleHasNoPendingHome == state \in IDLE_STATES => ~move_home_requested

\* home.home was reached at a home position set by the caller
C19_Witness ==
    /\ state = "home.home"
    /\ ~move_home_requested
    /\ home_position = <<100, -100, 200>>
    /\ current_position = home_position

\* C20: in home.home and in sequence_finished.finished the gripper is
\* open, whatever starts, home requests and diversions led there.
C20_GripperOpenWhenDone ==
    state \in {"home.home", "sequence_finished.finished"} => gripper_open

\* home.home was reached by a cycle diverted after the gripper had closed
\* on a cube picked at the rewritten source
C20_Witness ==
    /\ state = "home.home"
    /\ gripper_open
    /\ printed = print_transition("home.opening", "home.home",
                                  "finished_opening_gripper_at_home")
    /\ current_position = home_position
    /\ cube_start_position = Position(-700, 600, 0)
    /\ cube_end_position = DEFAULT_DESTINATION_POSITION

====
